---------------------------- MODULE Spec2Model ----------------------------
(***************************************************************************)
(* Model of the chat endpoint of chat/views.py: the module-level           *)
(* initialisation of chat_session and MAX_UPLOAD_SIZE, and the view        *)
(* chat_send, run by several request threads of the hosting server.        *)
(*                                                                         *)
(* Strings of the message field are sequences of characters.  The base64   *)
(* image string is kept run-length encoded (a sequence of runs [ch, n]),   *)
(* so that payloads of several MiB can be written down; the characters of  *)
(* a run of n >= 1 are "A" (one of the base64 alphabet), "=" (padding),    *)
(* "," (comma), "!" (another ASCII character) and "e" (a non-ASCII one).   *)
(***************************************************************************)
EXTENDS Integers, Sequences, FiniteSets, TLC

VARIABLES
    chat_session,     \* module global: "None" or "session"
    MAX_UPLOAD_SIZE,  \* module global: the configured limit in bytes
    history,          \* number of turns the provider session has recorded
    pc,               \* per thread: position in chat_send
    request,          \* per thread: the request being handled
    user_message,     \* per thread: local user_message
    pil_image,        \* per thread: local pil_image is set
    image_url,        \* per thread: local image_url ("" is None)
    did,              \* per thread: what has happened for the request so far
    responses,        \* per thread: the responses returned for the request
    escaped           \* per thread: an exception left chat_send

vars == <<chat_session, MAX_UPLOAD_SIZE, history, pc, request, user_message,
          pil_image, image_url, did, responses, escaped>>

----------------------------------------------------------------------------
(* Bounds of the model *)

NumThreads == 2
MaxHistory == 2
MaxMsgLen == 1
MaxData == 3

Threads == 1..NumThreads

----------------------------------------------------------------------------
(* Program constants *)

MiB == 1024 * 1024

DefaultMaxUploadSize == 5 * 1024 * 1024

ALLOWED_IMAGE_PREFIX == <<"image", "/">>

\* getattr(settings, "CHAT_MAX_UPLOAD_SIZE", default): the values a deployment
\* may configure; here the default and one that is no whole number of MiB
ConfiguredLimits == {DefaultMaxUploadSize, (3 * MiB) \div 2}

----------------------------------------------------------------------------
(* Python values *)

JAbsent == [type |-> "absent", str |-> <<>>, num |-> 0]
JNull == [type |-> "null", str |-> <<>>, num |-> 0]
JNum(n) == [type |-> "number", str |-> <<>>, num |-> n]
JStr(s) == [type |-> "string", str |-> s, num |-> 0]

\* bool(v) of Python, for the values dict.get() returns here
Truthy(v) ==
    CASE v.type = "string" -> v.str # <<>>
      [] v.type = "number" -> v.num # 0
      [] OTHER -> FALSE

\* (v or "")
OrEmpty(v) == IF Truthy(v) THEN v ELSE JStr(<<>>)

RECURSIVE LStrip(_)
LStrip(s) == IF s # <<>> /\ Head(s) = " " THEN LStrip(Tail(s)) ELSE s

RECURSIVE RStrip(_)
RStrip(s) ==
    IF s # <<>> /\ s[Len(s)] = " " THEN RStrip(SubSeq(s, 1, Len(s) - 1)) ELSE s

\* the message used as it came
StripMissing(s) == s

\* str.strip()
Strip(s) == RStrip(LStrip(s))

\* str.startswith(prefix); header values are sequences of tokens
StartsWith(s, prefix) ==
    /\ Len(s) >= Len(prefix)
    /\ SubSeq(s, 1, Len(prefix)) = prefix

MULTIPART_PREFIX == <<"multipart", "/", "form-data">>

----------------------------------------------------------------------------
(* base64.b64decode(s), without validate.  The decoder reads the text left *)
(* to right: a character outside the alphabet is discarded; an alphabet     *)
(* character fills the open quad; once the quad holds two or three          *)
(* characters, the "=" that complete it end the input; an open quad at the  *)
(* end of the input is an error.  Only the length of the result is kept.    *)

\* the alphabet characters of runs 1..i-1
RECURSIVE DataBefore(_, _)
DataBefore(runs, i) ==
    IF i = 1 THEN 0
    ELSE (IF runs[i - 1].ch = "A" THEN runs[i - 1].n ELSE 0)
         + DataBefore(runs, i - 1)

\* the "=" of runs 1..i-1 read since the last alphabet character
RECURSIVE PadsBefore(_, _)
PadsBefore(runs, i) ==
    IF i = 1 \/ runs[i - 1].ch = "A" THEN 0
    ELSE (IF runs[i - 1].ch = "=" THEN runs[i - 1].n ELSE 0)
         + PadsBefore(runs, i - 1)

\* run i is padding that completes the open quad: the decoder stops there
EndsInput(runs, i) ==
    /\ runs[i].ch = "="
    /\ DataBefore(runs, i) % 4 >= 2
    /\ (DataBefore(runs, i) % 4) + PadsBefore(runs, i) + runs[i].n >= 4

\* the bytes that ndata alphabet characters decode to
DecodedLen(ndata) == ndata - ((ndata + 3) \div 4)

\* [ok, len]: ok is FALSE where b64decode raises (binascii.Error, ValueError)
Decoded(runs) ==
    IF \E i \in 1..Len(runs) : runs[i].ch = "e"
    THEN [ok |-> FALSE, len |-> 0]
    ELSE IF \E i \in 1..Len(runs) : EndsInput(runs, i)
    THEN LET first == CHOOSE i \in 1..Len(runs) :
                          /\ EndsInput(runs, i)
                          /\ \A j \in 1..(i - 1) : ~EndsInput(runs, j)
         IN  [ok |-> TRUE, len |-> DecodedLen(DataBefore(runs, first))]
    ELSE IF DataBefore(runs, Len(runs) + 1) % 4 = 0
    THEN [ok |-> TRUE, len |-> DecodedLen(DataBefore(runs, Len(runs) + 1))]
    ELSE [ok |-> FALSE, len |-> 0]

\* base64.b64decode(s); the argument is evaluated once
b64decode(s) == CHOOSE result \in {Decoded(runs) : runs \in {s}} : TRUE

\* ',' in s
HasComma(runs) == \E i \in 1..Len(runs) : runs[i].ch = ","

\* s.split(',', 1)[1]: what follows the first comma
AfterFirstComma(runs) ==
    LET i == CHOOSE k \in 1..Len(runs) :
                 /\ runs[k].ch = ","
                 /\ \A j \in 1..(k - 1) : runs[j].ch # ","
        rest == SubSeq(runs, i + 1, Len(runs))
    IN  IF runs[i].n > 1
        THEN <<[ch |-> ",", n |-> runs[i].n - 1]>> \o rest
        ELSE rest

\* lines 130-133
Base64Data(base64_image) ==
    IF HasComma(base64_image) THEN AfterFirstComma(base64_image)
    ELSE base64_image

----------------------------------------------------------------------------
(* Requests *)

Run(c, n) == [ch |-> c, n |-> n]

\* a run of n characters c, nothing when n = 0
Chars(c, n) == IF n = 0 THEN <<>> ELSE <<Run(c, n)>>

\* the text before the comma of "data:image/png;base64,"
DataUrlPrefix ==
    <<Run("A", 4), Run("!", 1), Run("A", 9), Run("!", 1), Run("A", 6)>>

\* the base64 text a client produces for nbytes bytes
B64Encode(nbytes) ==
    Chars("A", 4 * (nbytes \div 3)
               + (CASE nbytes % 3 = 0 -> 0 [] nbytes % 3 = 1 -> 2 [] OTHER -> 3))
    \o Chars("=", (3 - (nbytes % 3)) % 3)

MsgStrings == UNION {[1..n -> {" ", "h"}] : n \in 0..MaxMsgLen}

NoFile == [present |-> FALSE, name |-> "", content_type |-> <<>>, size |-> 0]

UploadedFile(content_type, size) ==
    [present |-> TRUE, name |-> "img.png", content_type |-> content_type,
     size |-> size]

\* Every message is sent with these images and every image with these
\* messages; the other pairs add no path through the view.
SomeMessages == {JAbsent, JStr(<<"h">>)}

SomeFiles == {NoFile, UploadedFile(<<"image", "/", "png">>, 1)}

SomeImages == {JAbsent, JNull, JStr(<<>>), JStr(B64Encode(1))}

Files(limit) ==
    {NoFile} \cup
    {UploadedFile(ct, sz) :
        ct \in {<<"image", "/", "png">>, <<"text", "/", "plain">>},
        sz \in {0, 1, limit, limit + 1}}

Payloads(limit) ==
    {Chars("A", n) \o Chars("!", junk) \o Chars("=", pad) :
        n \in 0..MaxData, junk \in 0..1, pad \in 0..2}
    \cup {B64Encode(limit), B64Encode(limit + 1), <<Run("e", 1)>>}

ImageStrings(limit) ==
    Payloads(limit)
    \cup {DataUrlPrefix \o <<Run(",", 1)>> \o p : p \in Payloads(limit)}

NoBody == [utf8 |-> TRUE, text |-> "", message |-> JAbsent, image |-> JAbsent]

\* request.body: bytes that are no UTF-8, or text that is empty, no JSON, a
\* JSON array, or a JSON object with the two keys the view reads
Bodies(limit) ==
    {[NoBody EXCEPT !.utf8 = FALSE, !.text = "invalid"],
     NoBody,
     [NoBody EXCEPT !.text = "invalid"],
     [NoBody EXCEPT !.text = "array"]}
    \cup
    {b \in
        {[utf8 |-> TRUE, text |-> "object", message |-> m, image |-> i] :
            m \in {JAbsent, JNull, JNum(5)} \cup {JStr(x) : x \in MsgStrings},
            i \in {JAbsent, JNull, JNum(5)}
                  \cup {JStr(x) : x \in ImageStrings(limit)}} :
        b.message \in SomeMessages \/ b.image \in SomeImages}

MultipartRequests(limit) ==
    {r \in
        {[content_type |-> <<"multipart", "/", "form-data", "; boundary=x">>,
          POST_message |-> m, FILES_image |-> f, body |-> NoBody] :
            m \in {JAbsent} \cup {JStr(x) : x \in MsgStrings},
            f \in Files(limit)} :
        r.POST_message \in SomeMessages \/ r.FILES_image \in SomeFiles}
    \cup
    \* a form the multipart parser cannot read
    {[content_type |-> <<"multipart", "/", "form-data">>,
      POST_message |-> JAbsent, FILES_image |-> NoFile,
      body |-> [NoBody EXCEPT !.text = "invalid"]]}

JsonRequests(limit) ==
    {[content_type |-> ct, POST_message |-> JAbsent, FILES_image |-> NoFile,
      body |-> b] :
        ct \in {<<"application", "/", "json">>}, b \in Bodies(limit)}

NoRequest ==
    [content_type |-> <<>>, POST_message |-> JAbsent, FILES_image |-> NoFile,
     body |-> NoBody]

\* The first thread is sent every request of the model; the threads that run
\* beside it are sent a text turn.
Requests(t, limit) ==
    IF t = 1 THEN MultipartRequests(limit) \cup JsonRequests(limit)
    ELSE {r \in MultipartRequests(limit) :
             r.POST_message = JStr(<<"h">>) /\ r.FILES_image = NoFile}

----------------------------------------------------------------------------
(* Responses and the outcomes of a part of the handler *)

\* JsonResponse({'response': text}, status=status)
JsonResponse(status, text) ==
    [status |-> status, keys |-> {"response"}, response |-> text,
     args |-> <<>>, image_url |-> ""]

\* f'Image too large (max {MAX_UPLOAD_SIZE // (1024*1024)}MB).', status 400
TooLargeResponse(limit) ==
    [JsonResponse(400, "Image too large (max {}MB).")
        EXCEPT !.args = <<limit \div (1024 * 1024)>>]

\* image_url added whether or not a URL was saved
SuccessResponseAlwaysUrl(bot_reply, url) ==
    [JsonResponse(200, bot_reply)
        EXCEPT !.keys = {"response", "image_url"}, !.image_url = url]

\* lines 184-188: image_url is added when one was saved
SuccessResponse(bot_reply, url) ==
    IF url # ""
    THEN [JsonResponse(200, bot_reply)
            EXCEPT !.keys = {"response", "image_url"}, !.image_url = url]
    ELSE JsonResponse(200, bot_reply)

Return(resp) ==
    [kind |-> "return", response |-> resp, exc |-> "",
     user_message |-> <<>>, image |-> FALSE]

Raise(exc) ==
    [kind |-> "raise", response |-> JsonResponse(0, ""), exc |-> exc,
     user_message |-> <<>>, image |-> FALSE]

Continue(message, image) ==
    [kind |-> "continue", response |-> JsonResponse(0, ""), exc |-> "",
     user_message |-> message, image |-> image]

\* no catch-all around the body of the view
TryExceptMissing(outcome) == outcome

\* lines 83, 190-193: the handler's catch-all
TryExcept(outcome) ==
    IF outcome.kind = "raise"
    THEN Return(JsonResponse(500, "Internal server error."))
    ELSE outcome

\* Image.open(io.BytesIO(data)): raises for data PIL cannot identify, which
\* the empty data always is
ImageOpens(len, pil_ok) == pil_ok /\ len > 0

----------------------------------------------------------------------------
(* chat_send, part by part *)

\* lines 93-100; request.POST raises for a form that cannot be parsed
NormalizeMultipart(req, limit) ==
    LET message == Strip(OrEmpty(req.POST_message).str)
        uploaded_image == req.FILES_image
    IN  IF req.body.text = "invalid" THEN Raise("MultiPartParserError")
        ELSE IF uploaded_image.present
        THEN IF ~StartsWith(uploaded_image.content_type, ALLOWED_IMAGE_PREFIX)
             THEN Return(JsonResponse(400,
                         "Invalid file type. Only images are allowed."))
             ELSE IF uploaded_image.size > limit
                  THEN Return(TooLargeResponse(limit))
                  ELSE Continue(message, TRUE)
        ELSE Continue(message, FALSE)

\* line 122: json.loads(request.body.decode('utf-8') or "{}")
ParseBody(body) ==
    IF ~body.utf8 THEN [exc |-> "UnicodeDecodeError", payload |-> NoBody]
    ELSE IF body.text = ""
    THEN [exc |-> "", payload |-> [NoBody EXCEPT !.text = "object"]]
    ELSE IF body.text = "invalid"
    THEN [exc |-> "JSONDecodeError", payload |-> NoBody]
    ELSE [exc |-> "", payload |-> body]

\* the size check with >= for >
DecodeImageAtLimit(message, base64_data, limit, pil_ok) ==
    LET binary == b64decode(base64_data)
    IN  IF ~binary.ok
        THEN Return(JsonResponse(400, "Invalid base64 image data."))
        ELSE IF binary.len >= limit
             THEN Return(TooLargeResponse(limit))
             ELSE IF ~ImageOpens(binary.len, pil_ok)
                  THEN Return(JsonResponse(400, "Failed to decode image."))
                  ELSE Continue(message, TRUE)

\* lines 135-147, for the text after the data-URL prefix
DecodeImage(message, base64_data, limit, pil_ok) ==
    LET binary == b64decode(base64_data)
    IN  IF ~binary.ok
        THEN Return(JsonResponse(400, "Invalid base64 image data."))
        ELSE IF binary.len > limit
             THEN Return(TooLargeResponse(limit))
             ELSE IF ~ImageOpens(binary.len, pil_ok)
                  THEN Return(JsonResponse(400, "Failed to decode image."))
                  ELSE Continue(message, TRUE)

\* lines 126-147
NormalizePayload(payload, limit, pil_ok) ==
    IF payload.text # "object" THEN Raise("AttributeError")
    ELSE LET m == OrEmpty(payload.message)
             base64_image == payload.image
         IN  IF m.type # "string" THEN Raise("AttributeError")
             ELSE IF ~Truthy(base64_image) THEN Continue(Strip(m.str), FALSE)
             ELSE IF base64_image.type # "string" THEN Raise("TypeError")
             ELSE DecodeImage(Strip(m.str), Base64Data(base64_image.str),
                              limit, pil_ok)

\* lines 121-147
NormalizeJson(req, limit, pil_ok) ==
    LET parsed == ParseBody(req.body)
    IN  IF parsed.exc = "JSONDecodeError"
        THEN Return(JsonResponse(400, "Invalid JSON format."))
        ELSE IF parsed.exc # "" THEN Raise(parsed.exc)
        ELSE NormalizePayload(parsed.payload, limit, pil_ok)

\* lines 89-147, inside the try of line 83
NormalizeRequest(req, limit, pil_ok) ==
    TryExcept(IF StartsWith(req.content_type, MULTIPART_PREFIX)
              THEN NormalizeMultipart(req, limit)
              ELSE NormalizeJson(req, limit, pil_ok))

\* lines 46-49 and 151-152: the URL default_storage gives the saved file
StorageUrl(req) ==
    IF StartsWith(req.content_type, MULTIPART_PREFIX)
    THEN "/chat_uploads/img.png"
    ELSE "/chat_uploads/uploaded_from_json.png"

\* lines 103-108 and 150-154: the URL, or None when the store raised
SavedUrl(req, store_ok) == IF store_ok THEN StorageUrl(req) ELSE ""

\* lines 110-117: on the multipart path the image is opened after the save
OpenUploaded(req, message, pil_ok) ==
    IF StartsWith(req.content_type, MULTIPART_PREFIX)
       /\ ~ImageOpens(req.FILES_image.size, pil_ok)
    THEN Return(JsonResponse(400, "Failed to process uploaded image."))
    ELSE Continue(message, TRUE)

\* lines 157-158: nothing to send
NothingProvided(message, image) == message = <<>> /\ ~image

\* what chat_session.send_message does: it raises, or returns an object whose
\* text attribute is a string, is empty or raises, and which may be a dict
ProviderOutcomes ==
    {[raises |-> r, text |-> x, is_dict |-> d, dict_text |-> "Hi (dict)",
      repr |-> "<response>"] :
        r \in {FALSE}, x \in {"Hi", "", "raises"}, d \in BOOLEAN}
    \cup {[raises |-> TRUE, text |-> "", is_dict |-> FALSE,
           dict_text |-> "", repr |-> ""]}

\* lines 175-178
BotReply(response) ==
    LET a == IF response.text # "" THEN response.text
             ELSE IF response.is_dict THEN response.dict_text ELSE ""
    IN  IF a # "" THEN a ELSE response.repr

\* the error answer built like the success answer, image_url included
SendAndReplyWithUrl(outcome, url) ==
    IF outcome.raises \/ outcome.text = "raises"
    THEN Return([SuccessResponse(
                     "Sorry, the AI assistant encountered an error. Please try again.",
                     url) EXCEPT !.status = 500])
    ELSE Return(SuccessResponse(BotReply(outcome), url))

\* lines 172-188
SendAndReply(outcome, url) ==
    IF outcome.raises \/ outcome.text = "raises"
    THEN Return(JsonResponse(500,
           "Sorry, the AI assistant encountered an error. Please try again."))
    ELSE Return(SuccessResponse(BotReply(outcome), url))

\* the view without its first statement
SessionGateMissing(session) == Continue(<<>>, FALSE)

\* lines 80-81: the first statement of the view
SessionGate(session) ==
    IF session = "None"
    THEN Return(JsonResponse(503,
           "AI service is unavailable due to configuration error."))
    ELSE Continue(<<>>, FALSE)

\* what the blob store did, for the record kept in did
StoreMark(store_ok) == IF store_ok THEN "store_ok" ELSE "store_raised"

\* what the provider did, for the record kept in did
ProviderMarks(outcome) ==
    IF outcome.raises THEN {"send_raised"}
    ELSE IF outcome.text = "raises" THEN {"send_returned", "text_raised"}
    ELSE {"send_returned"}

\* lines 24-34: the session exists when a key is configured and nothing raised
ModuleInit(api_key, constructed) ==
    IF api_key /\ constructed THEN "session" ELSE "None"

----------------------------------------------------------------------------
(* The state machine *)

InFlight == {t \in Threads : pc[t] \notin {"idle", "responded"}}

\* the thread returns resp from chat_send
Respond(t, resp) ==
    /\ responses' = [responses EXCEPT ![t] = Append(@, resp)]
    /\ pc' = [pc EXCEPT ![t] = "responded"]

\* the end of a part of the handler: a response, an exception that leaves
\* the view, or the next part
Proceed(t, out, next) ==
    /\ IF out.kind = "return" THEN Respond(t, out.response)
       ELSE /\ pc' = [pc EXCEPT
                        ![t] = IF out.kind = "raise" THEN "responded" ELSE next]
            /\ UNCHANGED responses
    /\ escaped' = [escaped EXCEPT ![t] = @ \/ out.kind = "raise"]

Init ==
    /\ \E api_key \in BOOLEAN, constructed \in BOOLEAN :
           chat_session = ModuleInit(api_key, constructed)
    /\ MAX_UPLOAD_SIZE \in ConfiguredLimits
    /\ history = 0
    /\ pc = [t \in Threads |-> "idle"]
    /\ request = [t \in Threads |-> NoRequest]
    /\ user_message = [t \in Threads |-> <<>>]
    /\ pil_image = [t \in Threads |-> FALSE]
    /\ image_url = [t \in Threads |-> ""]
    /\ did = [t \in Threads |-> {}]
    /\ responses = [t \in Threads |-> <<>>]
    /\ escaped = [t \in Threads |-> FALSE]

\* the server hands a POST to chat_send on thread t
Receive(t) ==
    /\ pc[t] = "idle"
    /\ history + Cardinality(InFlight) < MaxHistory
    /\ \E req \in Requests(t, MAX_UPLOAD_SIZE) :
           request' = [request EXCEPT ![t] = req]
    /\ pc' = [pc EXCEPT ![t] = "start"]
    /\ UNCHANGED <<chat_session, MAX_UPLOAD_SIZE, history, user_message,
                   pil_image, image_url, did, responses, escaped>>

\* lines 80-81
SessionCheck(t) ==
    /\ pc[t] = "start"
    /\ Proceed(t, SessionGate(chat_session), "normalize")
    /\ UNCHANGED <<chat_session, MAX_UPLOAD_SIZE, history, request,
                   user_message, pil_image, image_url, did>>

\* lines 83-100 (multipart) and 119-147 (JSON)
Normalize(t) ==
    /\ pc[t] = "normalize"
    /\ \E pil_ok \in BOOLEAN :
       \E out \in {NormalizeRequest(request[t], MAX_UPLOAD_SIZE, pil_ok)} :
         LET json == ~StartsWith(request[t].content_type, MULTIPART_PREFIX)
         IN  /\ Proceed(t, out, IF out.image THEN "save" ELSE "dispatch")
             /\ user_message' = [user_message EXCEPT ![t] = out.user_message]
             /\ pil_image' = [pil_image EXCEPT ![t] = json /\ out.image]
    /\ did' = [did EXCEPT ![t] = @ \cup {"normalize"}]
    /\ UNCHANGED <<chat_session, MAX_UPLOAD_SIZE, history, request, image_url>>

\* lines 102-117 (multipart) and 149-154 (JSON): the write to the blob store
SaveImage(t) ==
    /\ pc[t] = "save"
    /\ \E store_ok \in BOOLEAN, pil_ok \in BOOLEAN :
         \E out \in {TryExcept(OpenUploaded(request[t], user_message[t],
                                            pil_ok))} :
             /\ image_url' = [image_url EXCEPT
                                ![t] = SavedUrl(request[t], store_ok)]
             /\ Proceed(t, out, "dispatch")
             /\ pil_image' = [pil_image EXCEPT ![t] = out.image]
             /\ did' = [did EXCEPT ![t] = @ \cup {StoreMark(store_ok)}]
    /\ UNCHANGED <<chat_session, MAX_UPLOAD_SIZE, history, request,
                   user_message>>

\* lines 156-173: the empty turn is answered, any other enters send_message
Dispatch(t) ==
    /\ pc[t] = "dispatch"
    /\ IF NothingProvided(user_message[t], pil_image[t])
       THEN /\ Proceed(t, Return(JsonResponse(200,
                                  "Please send text or an image.")), "send")
            /\ UNCHANGED did
       ELSE /\ Proceed(t, Continue(user_message[t], pil_image[t]), "send")
            /\ did' = [did EXCEPT ![t] = @ \cup {"send"}]
    /\ UNCHANGED <<chat_session, MAX_UPLOAD_SIZE, history, request,
                   user_message, pil_image, image_url>>

\* lines 173-188: send_message returns or raises, and the view answers
SendMessage(t) ==
    /\ pc[t] = "send"
    /\ \E outcome \in ProviderOutcomes :
         /\ Proceed(t, TryExcept(SendAndReply(outcome, image_url[t])), "send")
         /\ history' = IF outcome.raises THEN history ELSE history + 1
         /\ did' = [did EXCEPT ![t] = @ \cup ProviderMarks(outcome)]
    /\ UNCHANGED <<chat_session, MAX_UPLOAD_SIZE, request, user_message,
                   pil_image, image_url>>

\* the request is over; the thread's locals are gone
Finish(t) ==
    /\ pc[t] = "responded"
    /\ pc' = [pc EXCEPT ![t] = "idle"]
    /\ request' = [request EXCEPT ![t] = NoRequest]
    /\ user_message' = [user_message EXCEPT ![t] = <<>>]
    /\ pil_image' = [pil_image EXCEPT ![t] = FALSE]
    /\ image_url' = [image_url EXCEPT ![t] = ""]
    /\ did' = [did EXCEPT ![t] = {}]
    /\ responses' = [responses EXCEPT ![t] = <<>>]
    /\ escaped' = [escaped EXCEPT ![t] = FALSE]
    /\ UNCHANGED <<chat_session, MAX_UPLOAD_SIZE, history>>

Step(t) ==
    \/ SessionCheck(t)
    \/ Normalize(t)
    \/ SaveImage(t)
    \/ Dispatch(t)
    \/ SendMessage(t)

Next == \E t \in Threads : Receive(t) \/ Step(t) \/ Finish(t)

Spec == Init /\ [][Next]_vars

----------------------------------------------------------------------------
(* What the claims speak of *)

Responded(t) == pc[t] = "responded"

Answer(t) == responses[t][1]

Json(req) == ~StartsWith(req.content_type, MULTIPART_PREFIX)

AllSpaces(s) == \A i \in 1..Len(s) : s[i] = " "

\* the request's message field is missing, null or blank, and it has no image
EmptyTurn(req) ==
    IF Json(req)
    THEN /\ req.body.utf8
         /\ req.body.text \in {"", "object"}
         /\ req.body.message.type \in {"absent", "null", "string"}
         /\ AllSpaces(req.body.message.str)
         /\ \/ req.body.image.type \in {"absent", "null"}
            \/ req.body.image = JStr(<<>>)
    ELSE /\ req.body.text # "invalid"
         /\ AllSpaces(req.POST_message.str)
         /\ ~req.FILES_image.present

StoreWritten(t) == did[t] \cap {"store_ok", "store_raised"} # {}

IsTooLarge(resp) ==
    resp.status = 400 /\ resp.response = "Image too large (max {}MB)."

\* the request carries an image that reaches the size check
SizeChecked(req) ==
    IF Json(req)
    THEN /\ req.body.utf8
         /\ req.body.text = "object"
         /\ req.body.message.type \in {"absent", "null", "string"}
         /\ req.body.image.type = "string"
         /\ req.body.image.str # <<>>
         /\ b64decode(Base64Data(req.body.image.str)).ok
    ELSE /\ req.FILES_image.present
         /\ req.FILES_image.content_type \in {<<"image", "/", "png">>}

\* the byte length of that image
ImageBytes(req) ==
    IF Json(req) THEN b64decode(Base64Data(req.body.image.str)).len
    ELSE req.FILES_image.size

\* base64 text as an encoder writes it: whole quads of alphabet characters,
\* the last one padded with at most two "="
WellFormedBase64(runs) ==
    \/ runs = <<>>
    \/ Len(runs) = 1 /\ runs[1].ch = "A" /\ runs[1].n % 4 = 0
    \/ /\ Len(runs) = 2
       /\ runs[1].ch = "A" /\ runs[2].ch = "="
       /\ runs[2].n <= 2 /\ (runs[1].n + runs[2].n) % 4 = 0

\* a non-multipart request whose body is no JSON text
UnparsableBody(req) ==
    Json(req) /\ (~req.body.utf8 \/ req.body.text = "invalid")

\* a non-multipart request whose image string carries a malformed payload
BadBase64(req) ==
    /\ Json(req) /\ req.body.utf8 /\ req.body.text = "object"
    /\ req.body.message.type \in {"absent", "null", "string"}
    /\ req.body.image.type = "string"
    /\ req.body.image.str # <<>>
    /\ ~WellFormedBase64(Base64Data(req.body.image.str))

ProviderError ==
    JsonResponse(500,
        "Sorry, the AI assistant encountered an error. Please try again.")

----------------------------------------------------------------------------
(* The claims *)

\* C1: with no session constructed at start, every request is answered 503
\* with the unavailable message, and nothing else is done for it: it is
\* never normalised, no image is stored and the provider is never called.
C1_UnavailableBeforeAnyWork ==
    chat_session = "None" =>
        \A t \in Threads :
            /\ did[t] = {}
            /\ pc[t] \in {"idle", "start", "responded"}
            /\ Responded(t) =>
                 responses[t] = <<JsonResponse(503,
                     "AI service is unavailable due to configuration error.")>>

\* C1 witness: a request whose body is not even text was answered 503.
C1_Witness ==
    /\ chat_session = "None"
    /\ \E t \in Threads :
         /\ Responded(t) /\ ~request[t].body.utf8
         /\ Answer(t).status = 503

\* C2: a request that is over has exactly one response, with status 200, 400,
\* 500 or 503, and no exception left the view; a request that is not over
\* has no response yet and its next step can always be taken, whatever the
\* blob store, the image library and the provider do.
C2_ExactlyOneResponse ==
    \A t \in Threads :
        /\ ~escaped[t]
        /\ Responded(t) =>
             /\ Len(responses[t]) = 1
             /\ Answer(t).status \in {200, 400, 500, 503}
        /\ ~Responded(t) => responses[t] = <<>>
        /\ pc[t] \notin {"idle", "responded"} => ENABLED Step(t)

\* C2 witness: an exception inside the view (a JSON body that is an array)
\* was answered by the catch-all.
C2_Witness ==
    \E t \in Threads :
        /\ Responded(t) /\ request[t].body.text = "array"
        /\ responses[t] = <<JsonResponse(500, "Internal server error.")>>

\* C3: with the session available, a request with a blank message and no
\* image is answered 200 "Please send text or an image." and send_message
\* is never invoked for it.
C3_EmptyTurnShortCircuits ==
    \A t \in Threads :
        (chat_session = "session" /\ pc[t] # "idle" /\ EmptyTurn(request[t])) =>
            /\ "send" \notin did[t]
            /\ pc[t] # "send"
            /\ Responded(t) =>
                 responses[t] = <<JsonResponse(200,
                                     "Please send text or an image.")>>

\* C3 witness: a JSON request whose message is one space and whose image is
\* the empty string got the short-circuit answer.
C3_Witness ==
    \E t \in Threads :
        /\ Responded(t)
        /\ request[t].body.message = JStr(<<" ">>)
        /\ request[t].body.image = JStr(<<>>)
        /\ Answer(t).response = "Please send text or an image."

\* C4 (as claimed): a non-multipart request with a body that is no JSON is
\* answered 400 "Invalid JSON format.", one whose image payload is malformed
\* base64 is answered 400 "Invalid base64 image data.", and in neither case
\* is the provider called.
C4_MalformedInputIs400 ==
    \A t \in Threads :
        (chat_session = "session" /\ Responded(t)) =>
            /\ UnparsableBody(request[t]) =>
                 /\ responses[t] = <<JsonResponse(400, "Invalid JSON format.")>>
                 /\ "send" \notin did[t]
            /\ BadBase64(request[t]) =>
                 /\ responses[t] =
                        <<JsonResponse(400, "Invalid base64 image data.")>>
                 /\ "send" \notin did[t]

C6_ProviderErrorIsGeneric500 ==
    \A t \in Threads :
        "send_raised" \in did[t] =>
            Responded(t) /\ responses[t] = <<ProviderError>>

\* C6 witness: the provider raised for a request whose image had been stored.
C6_Witness ==
    \E t \in Threads :
        /\ "send_raised" \in did[t] /\ "store_ok" \in did[t]
        /\ image_url[t] # ""
        /\ Responded(t)

\* C7: when the blob store raised and the provider returned a reply, the
\* response is 200 with the provider's reply; and a success response holds
\* image_url exactly when the store returned a URL for the request.
C7_StoreFailureIsAbsorbed ==
    \A t \in Threads :
        (/\ Responded(t)
         /\ "send_returned" \in did[t]
         /\ "text_raised" \notin did[t]) =>
            /\ Answer(t).status = 200
            /\ Answer(t).response \in {"Hi", "Hi (dict)", "<response>"}
            /\ "image_url" \in Answer(t).keys <=> "store_ok" \in did[t]
            /\ "store_ok" \in did[t] => Answer(t).image_url # ""

\* C7 witness: the store raised on the multipart path and the reply came back.
C7_Witness ==
    \E t \in Threads :
        /\ Responded(t) /\ ~Json(request[t])
        /\ {"store_raised", "send_returned"} \subseteq did[t]
        /\ Answer(t).status = 200 /\ Answer(t).keys = {"response"}

\* C8 (as claimed): at most one request is inside send_message at any moment.
C8_OneSendAtATime == Cardinality({t \in Threads : pc[t] = "send"}) <= 1

\* C9 (as claimed): the number N of "Image too large (max N MB)." times
\* 1048576 is the limit the size check enforces.
C9_MessageStatesTheLimit ==
    \A t \in Threads :
        \A i \in 1..Len(responses[t]) :
            IsTooLarge(responses[t][i]) =>
                responses[t][i].args[1] * 1048576 = MAX_UPLOAD_SIZE

\* C10 (as claimed): a request answered with a validation rejection (400)
\* has written nothing to the blob store.
C10_RejectedRequestStoredNothing ==
    \A t \in Threads :
        (Responded(t) /\ Answer(t).status = 400) => "store_ok" \notin did[t]

=============================================================================
